---- MODULE Spec2Model ----
(***************************************************************************)
(* A model of mgodo.go: the Do operation context over an mgo collection    *)
(* and the "ChangeLog" collection.  Every call of the mgo driver (Upsert,  *)
(* RemoveId, RemoveAll, FindId.One, Find.All/One/Count) is one atomic      *)
(* step against the store; a *WithLog method is a sequence of such steps   *)
(* and other contexts may run between them.  The session is in mgo's       *)
(* default safe mode, so write errors are reported to the caller.          *)
(* Sort, Skip and Limit of the context stay at their zero values; query    *)
(* results are therefore sets of identities (Distinct: sets of values).    *)
(***************************************************************************)
EXTENDS Integers, FiniteSets, Sequences, TLC

\* ---------------------------------------------------------------- bounds
NumCtx == 2
NumForeign == 1
MaxOid == 2
MaxTime == 3
MaxAnd == 2
MaxFail == 1
MaxCalls == 2

\* ------------------------------------------------------------- constants
Ctx == 1 .. NumCtx
\* identities a caller can hold that bson.NewObjectId never produced here
ForeignIds == 1 .. NumForeign
NoId == 0
ZeroTime == 0
\* the (operator, reason) pair the caller of context c hands to NewDo, and
\* the payload it puts in the records it builds
ActorOf(c) == IF c = 1 THEN <<"alice", "fix">> ELSE <<"bob", "cleanup">>
PayloadOf(c) == IF c = 1 THEN "A" ELSE "B"
\* the collection names a caller hands to NewDo in place of a record
ModelNames == {"ChangeLog"}

UPDATE == "UPDATE"
DELETE == "DELETE"
ERASE == "ERASE"

\* the bson key under which the record type stores its IsRemoved field: the
\* first of the two spellings that findQ tests
flagKey == "is_removed"

VARIABLES
  store,      \* the record collection: identity -> stored document
  changelog,  \* the "ChangeLog" collection: identity -> stored log document
  do,         \* do[c]: the fields of the Do value c
  pc,         \* pc[c]: where context c stands inside a public method
  frame,      \* frame[c]: locals of the *WithLog method that c is running
  ret,        \* ret[c]: what the last finished method of c returned
  now,        \* the clock read by time.Now()
  nextOid,    \* the counter behind bson.NewObjectId()
  fails,      \* the number of store calls that have failed so far
  calls,      \* calls[c]: the number of methods called on context c so far
  filter      \* filter[c]: the value the caller last gave to the Query of c

vars == <<store, changelog, do, pc, frame, ret, now, nextOid, fails, calls, filter>>

\* ------------------------------------------------------ values and codecs
\* m.model is either a pointer to a record struct or a collection name
StructModel(id, name) ==
  [kind |-> "ptr", typ |-> "Record", Id |-> id, Name |-> name,
   CreatedAt |-> ZeroTime, CreatedBy |-> "", UpdatedAt |-> ZeroTime,
   UpdatedBy |-> "", RemovedAt |-> ZeroTime, RemovedBy |-> "",
   IsRemoved |-> FALSE]

StringModel(s) == [kind |-> "string", name |-> s]

getModelName(m) == IF m.kind = "string" THEN m.name ELSE m.typ

Collection(m) == getModelName(m)

\* bson encoding of the record struct, as sent in {"$set": m.model}
Marshal(m) ==
  (flagKey :> m.IsRemoved) @@
  [_id |-> m.Id, name |-> m.Name, CreatedAt |-> m.CreatedAt,
   CreatedBy |-> m.CreatedBy, UpdatedAt |-> m.UpdatedAt,
   UpdatedBy |-> m.UpdatedBy, RemovedAt |-> m.RemovedAt,
   RemovedBy |-> m.RemovedBy]

Field(doc, k) == IF k \in DOMAIN doc THEN doc[k] ELSE "<missing>"
IsTrue(doc, k) == k \in DOMAIN doc /\ doc[k] = TRUE

\* bson decoding into the struct behind m.model: the struct is zeroed first
Unmarshal(doc) ==
  [kind |-> "ptr", typ |-> "Record", Id |-> doc["_id"], Name |-> doc["name"],
   CreatedAt |-> doc["CreatedAt"], CreatedBy |-> doc["CreatedBy"],
   UpdatedAt |-> doc["UpdatedAt"], UpdatedBy |-> doc["UpdatedBy"],
   RemovedAt |-> doc["RemovedAt"], RemovedBy |-> doc["RemovedBy"],
   IsRemoved |-> IsTrue(doc, flagKey)]

\* a generator that hands out one identity again and again
NewObjectId_Fixed == NumForeign + 1

NewObjectId == NumForeign + nextOid

\* m.Query: nil, or a map with an optional "_id" key (NoKey: none), an
\* optional "name" key ("": none) and an "$and" list of `and` copies of rmQ
NoKey == -1
NilQuery == [set |-> FALSE, id |-> NoKey, name |-> "", and |-> 0]
\* the filters a caller assigns to Query
CallerQueries == {[set |-> TRUE, id |-> NoKey, name |-> "A", and |-> 0]}

\* a filter that knows one spelling of the flag only
rmQ_OneSpelling(doc) == ~IsTrue(doc, "IsRemoved")

\* rmQ of findQ: neither spelling of the flag is true
rmQ(doc) == ~IsTrue(doc, "is_removed") /\ ~IsTrue(doc, "IsRemoved")

\* does the selector q select doc (Find(nil) and RemoveAll(nil) select all)
Matches(q, doc) ==
  \/ ~q.set
  \/ /\ q.id = NoKey \/ doc["_id"] = q.id
     /\ q.name = "" \/ Field(doc, "name") = q.name
     /\ q.and = 0 \/ rmQ(doc)

Selected(coll, q) == {i \in DOMAIN coll : Matches(q, coll[i])}

\* an upsert that leaves the name of a document it finds as it was
Upsert_KeepsName(coll, id, d) ==
  IF id \in DOMAIN coll
    THEN [coll EXCEPT ![id] =
            [k \in DOMAIN (d @@ coll[id]) |->
               IF k = "name" /\ k \in DOMAIN coll[id] THEN coll[id][k]
               ELSE (d @@ coll[id])[k]]]
    ELSE (id :> d) @@ coll

\* an update that inserts nothing when it finds no document
Upsert_UpdateOnly(coll, id, d) ==
  IF id \in DOMAIN coll
    THEN [coll EXCEPT ![id] = d @@ coll[id]]
    ELSE coll

\* collection.Upsert({"_id": id}, {"$set": d}) when the store applies it
Upsert(coll, id, d) ==
  IF id \in DOMAIN coll
    THEN [coll EXCEPT ![id] = d @@ coll[id]]
    ELSE (id :> d) @@ coll

Remove(coll, ids) == [i \in DOMAIN coll \ ids |-> coll[i]]

CollectionOf(c) == IF do[c].collection = "ChangeLog" THEN changelog ELSE store

NoRecord == <<>>
NoFrame == [call |-> "", operation |-> "", record |-> NoRecord]
\* op: the method that returned; err: the error it returned; storeErr: the
\* error the driver gave to its last store call; count, out: its results
NoRet ==
  [op |-> "", err |-> "", storeErr |-> "", count |-> 0, out |-> {}, vals |-> {}]
Return(op, err) ==
  [op |-> op, err |-> err, storeErr |-> err, count |-> 0, out |-> {}, vals |-> {}]
\* a caller that drops the error of the store
StoreErr_Swallowed(ok) == "nil"

StoreErr(ok) == IF ok THEN "nil" ELSE "StoreError"

\* the outcomes of one store call: it works, or (MaxFail times at most) fails
Outcomes == IF fails < MaxFail THEN {TRUE, FALSE} ELSE {TRUE}
Called(ok) == fails' = IF ok THEN fails ELSE fails + 1

IsPtr(c) == do[c].model.kind = "ptr"
\* the methods that send the Id to the store are called on records that
\* have one: bson refuses to encode the zero ObjectId
HasId(c) == IsPtr(c) /\ do[c].model.Id # NoId
Idle(c) == pc[c] = "idle"
\* a method is called on context c
Enter(c) ==
  /\ Idle(c)
  /\ calls[c] < MaxCalls
  /\ calls' = [calls EXCEPT ![c] = @ + 1]

\* ------------------------------------------------------------------ Init
Init ==
  /\ store = <<>>
  /\ changelog = <<>>
  /\ do = [c \in Ctx |->
            [model |-> StringModel(""), collection |-> "",
             logCollection |-> "", Query |-> NilQuery,
             Operator |-> "", Reason |-> ""]]
  /\ pc = [c \in Ctx |-> "new"]
  /\ frame = [c \in Ctx |-> NoFrame]
  /\ ret = [c \in Ctx |-> NoRet]
  /\ now = ZeroTime
  /\ nextOid = 1
  /\ fails = 0
  /\ calls = [c \in Ctx |-> 0]
  /\ filter = [c \in Ctx |-> NilQuery]

\* ------------------------------------------------------- caller's actions
\* the models a caller hands to NewDo: a collection name, or a record struct
\* it filled in itself (a known identity or none, and a payload)
CallerModels(c) ==
  {StringModel(s) : s \in ModelNames} \cup
  {StructModel(i, PayloadOf(c)) : i \in {NoId} \cup ForeignIds \cup DOMAIN store}

\* context c is constructed; Query, Sort, Skip and Limit start at zero
NewDo(c, model, operator, reason) ==
  /\ pc[c] = "new"
  /\ pc' = [pc EXCEPT ![c] = "idle"]
  /\ do' = [do EXCEPT ![c] =
              [model |-> model, collection |-> Collection(model),
               logCollection |-> Collection(StringModel("ChangeLog")),
               Query |-> NilQuery, Operator |-> operator, Reason |-> reason]]
  /\ UNCHANGED <<store, changelog, frame, ret, now, nextOid, fails, calls, filter>>

\* the caller assigns the exported Query field of a context it has not
\* used yet
SetQuery(c, q) ==
  /\ Idle(c)
  /\ calls[c] = 0
  /\ do[c].Query = NilQuery
  /\ do' = [do EXCEPT ![c].Query = q]
  /\ filter' = [filter EXCEPT ![c] = q]
  /\ UNCHANGED <<store, changelog, pc, frame, ret, now, nextOid, fails, calls>>

\* --------------------------------------------------------------- mutation
\* a Create that does not record who created the record
Create_Anonymous(c, ok) ==
  LET m1 == [do[c].model EXCEPT !.Id = NewObjectId, !.CreatedAt = now + 1]
  IN /\ do' = [do EXCEPT ![c].model = m1]
     /\ store' = IF ok THEN Upsert(store, m1.Id, Marshal(m1)) ELSE store
     /\ now' = now + 1
     /\ nextOid' = nextOid + 1

\* a Create that keeps an identity the record already has
Create_KeepsId(c, ok) ==
  LET m1 == [do[c].model EXCEPT
               !.Id = IF @ # NoId THEN @ ELSE NewObjectId,
               !.CreatedAt = now + 1, !.CreatedBy = do[c].Operator]
  IN /\ do' = [do EXCEPT ![c].model = m1]
     /\ store' = IF ok THEN Upsert(store, m1.Id, Marshal(m1)) ELSE store
     /\ now' = now + 1
     /\ nextOid' = nextOid + 1

\* body of Do.Create; ok says whether the store applied the upsert
Create(c, ok) ==
  LET m1 == [do[c].model EXCEPT !.Id = NewObjectId, !.CreatedAt = now + 1,
                                !.CreatedBy = do[c].Operator]
  IN /\ do' = [do EXCEPT ![c].model = m1]
     /\ store' = IF ok THEN Upsert(store, m1.Id, Marshal(m1)) ELSE store
     /\ now' = now + 1
     /\ nextOid' = nextOid + 1

CreateCall(c) ==
  /\ Enter(c) /\ IsPtr(c)
  /\ now < MaxTime /\ nextOid <= MaxOid
  /\ \E ok \in Outcomes :
       /\ Create(c, ok) /\ Called(ok)
       /\ ret' = [ret EXCEPT ![c] = Return("Create", StoreErr(ok))]
  /\ UNCHANGED <<changelog, pc, frame, filter>>

\* a Save that upserts without stamping UpdatedAt
Save_NoStamp(c, ok) ==
  LET m1 == [do[c].model EXCEPT !.UpdatedBy = do[c].Operator]
  IN /\ do' = [do EXCEPT ![c].model = m1]
     /\ store' = IF ok THEN Upsert(store, m1.Id, Marshal(m1)) ELSE store
     /\ now' = now + 1

\* body of Do.Save
Save(c, ok) ==
  LET m1 == [do[c].model EXCEPT !.UpdatedAt = now + 1,
                                !.UpdatedBy = do[c].Operator]
  IN /\ do' = [do EXCEPT ![c].model = m1]
     /\ store' = IF ok THEN Upsert(store, m1.Id, Marshal(m1)) ELSE store
     /\ now' = now + 1

SaveCall(c) ==
  /\ Enter(c) /\ HasId(c)
  /\ now < MaxTime
  /\ \E ok \in Outcomes :
       /\ Save(c, ok) /\ Called(ok)
       /\ ret' = [ret EXCEPT ![c] = Return("Save", StoreErr(ok))]
  /\ UNCHANGED <<changelog, pc, frame, nextOid, filter>>

\* a RemoveId that is silent when there is nothing to remove
RemoveIdErr_Silent(coll, id, ok) == IF ~ok THEN "StoreError" ELSE "nil"

\* collection.RemoveId(id): mgo reports ErrNotFound when nothing was removed
RemoveIdErr(coll, id, ok) ==
  IF ~ok THEN "StoreError" ELSE IF id \in DOMAIN coll THEN "nil" ELSE "NotFound"

\* an Erase that removes the document also when the store call fails
Erase_Regardless(c, ok) == store' = Remove(store, {do[c].model.Id})

\* an Erase that removes nothing
Erase_Keeps(c, ok) == store' = store

\* body of Do.Erase
Erase(c, ok) ==
  store' = IF ok THEN Remove(store, {do[c].model.Id}) ELSE store

EraseCall(c) ==
  /\ Enter(c) /\ HasId(c)
  /\ \E ok \in Outcomes :
       /\ Erase(c, ok) /\ Called(ok)
       /\ ret' = [ret EXCEPT ![c] =
                    Return("Erase", RemoveIdErr(store, do[c].model.Id, ok))]
  /\ UNCHANGED <<changelog, do, pc, frame, now, nextOid, filter>>

\* a Delete that flips the flag of the record
Delete_Toggles(c, ok) ==
  LET m1 == [do[c].model EXCEPT !.RemovedAt = now + 1,
                                !.RemovedBy = do[c].Operator,
                                !.IsRemoved = ~@]
  IN /\ do' = [do EXCEPT ![c].model = m1]
     /\ store' = IF ok THEN Upsert(store, m1.Id, Marshal(m1)) ELSE store
     /\ now' = now + 1

\* a Delete that sets the flag and nothing else
Delete_FlagOnly(c, ok) ==
  LET m1 == [do[c].model EXCEPT !.IsRemoved = TRUE]
  IN /\ do' = [do EXCEPT ![c].model = m1]
     /\ store' = IF ok THEN Upsert(store, m1.Id, Marshal(m1)) ELSE store
     /\ now' = now + 1

\* body of Do.Delete
Delete(c, ok) ==
  LET m1 == [do[c].model EXCEPT !.RemovedAt = now + 1,
                                !.RemovedBy = do[c].Operator,
                                !.IsRemoved = TRUE]
  IN /\ do' = [do EXCEPT ![c].model = m1]
     /\ store' = IF ok THEN Upsert(store, m1.Id, Marshal(m1)) ELSE store
     /\ now' = now + 1

DeleteCall(c) ==
  /\ Enter(c) /\ HasId(c)
  /\ now < MaxTime
  /\ \E ok \in Outcomes :
       /\ Delete(c, ok) /\ Called(ok)
       /\ ret' = [ret EXCEPT ![c] = Return("Delete", StoreErr(ok))]
  /\ UNCHANGED <<changelog, pc, frame, nextOid, filter>>

\* ------------------------------------------------------------ the *WithLog
\* SaveWithLog, first step: m.Save(); its error ends the call
SaveWithLog(c) ==
  /\ Enter(c) /\ HasId(c)
  /\ now < MaxTime
  /\ \E ok \in Outcomes :
       /\ Save(c, ok) /\ Called(ok)
       /\ IF ok
            THEN /\ pc' = [pc EXCEPT ![c] = "saveLog"]
                 /\ frame' = [frame EXCEPT ![c] =
                       [call |-> "SaveWithLog", operation |-> UPDATE,
                        record |-> NoRecord]]
                 /\ ret' = [ret EXCEPT ![c] = NoRet]
            ELSE /\ ret' = [ret EXCEPT ![c] = Return("SaveWithLog", "StoreError")]
                 /\ UNCHANGED <<pc, frame>>
  /\ UNCHANGED <<changelog, nextOid, filter>>

\* EraseWithLog is entered: its first statement is m.saveLog(ERASE)
EraseWithLog(c) ==
  /\ Enter(c) /\ HasId(c)
  /\ pc' = [pc EXCEPT ![c] = "saveLog"]
  /\ frame' = [frame EXCEPT ![c] =
        [call |-> "EraseWithLog", operation |-> ERASE, record |-> NoRecord]]
  /\ ret' = [ret EXCEPT ![c] = NoRet]
  /\ UNCHANGED <<store, changelog, do, now, nextOid, fails, filter>>

\* DeleteWithLog is entered: its first statement is m.saveLog(DELETE)
DeleteWithLog(c) ==
  /\ Enter(c) /\ HasId(c)
  /\ pc' = [pc EXCEPT ![c] = "saveLog"]
  /\ frame' = [frame EXCEPT ![c] =
        [call |-> "DeleteWithLog", operation |-> DELETE, record |-> NoRecord]]
  /\ ret' = [ret EXCEPT ![c] = NoRet]
  /\ UNCHANGED <<store, changelog, do, now, nextOid, fails, filter>>

\* m.collection.FindId(recordId).One(&record): no soft-delete filter
FindIdErr(coll, id, ok) ==
  IF ~ok THEN "StoreError" ELSE IF id \in DOMAIN coll THEN "nil" ELSE "NotFound"

\* saveLog, first half: read the current record; an error ends the call
saveLogFind(c) ==
  /\ pc[c] = "saveLog"
  /\ \E ok \in Outcomes :
       LET recordId == do[c].model.Id
           err == FindIdErr(store, recordId, ok)
       IN /\ Called(ok)
          /\ IF err = "nil"
               THEN /\ frame' = [frame EXCEPT ![c].record = <<store[recordId]>>]
                    /\ pc' = [pc EXCEPT ![c] = "saveLogUpsert"]
                    /\ UNCHANGED ret
               ELSE /\ ret' = [ret EXCEPT ![c] = Return(frame[c].call, err)]
                    /\ pc' = [pc EXCEPT ![c] = "idle"]
                    /\ frame' = [frame EXCEPT ![c] = NoFrame]
  /\ UNCHANGED <<store, changelog, do, now, nextOid, calls, filter>>

\* a saveLog that logs the caller's in-memory record, not the one re-read
NewChangeLog_OfModel(c) ==
  [_id |-> NewObjectId, CreatedBy |-> do[c].Operator, CreatedAt |-> now + 1,
   ChangeReason |-> do[c].Reason, Operation |-> frame[c].operation,
   ModelObjId |-> do[c].model.Id, ModelName |-> getModelName(do[c].model),
   ModelValue |-> Marshal(do[c].model)]

\* the ChangeLog value cl that saveLog fills in
NewChangeLog(c) ==
  [_id |-> NewObjectId, CreatedBy |-> do[c].Operator, CreatedAt |-> now + 1,
   ChangeReason |-> do[c].Reason, Operation |-> frame[c].operation,
   ModelObjId |-> do[c].model.Id, ModelName |-> getModelName(do[c].model),
   ModelValue |-> frame[c].record[1]]

\* a DeleteWithLog that returns after its log write
AfterLog_NoDelete(call, err) ==
  IF err # "nil" THEN "idle"
  ELSE IF call = "EraseWithLog" THEN "Erase" ELSE "idle"

\* *WithLog methods that go on to their mutation whatever saveLog returned
AfterLog_IgnoresErr(call, err) ==
  IF call = "EraseWithLog" THEN "Erase"
  ELSE IF call = "DeleteWithLog" THEN "Delete" ELSE "idle"

\* where a *WithLog method stands once saveLog returned err: an error ends
\* it, as does nil in SaveWithLog; the other two go on to their mutation
AfterLog(call, err) ==
  IF err # "nil" THEN "idle"
  ELSE IF call = "EraseWithLog" THEN "Erase"
  ELSE IF call = "DeleteWithLog" THEN "Delete" ELSE "idle"

\* saveLog, second half: upsert cl by its own fresh identity
saveLogUpsert(c) ==
  /\ pc[c] = "saveLogUpsert"
  /\ now < MaxTime /\ nextOid <= MaxOid
  /\ \E ok \in Outcomes :
       LET cl == NewChangeLog(c)
           to == AfterLog(frame[c].call, StoreErr(ok))
       IN /\ Called(ok)
          /\ changelog' = IF ok THEN Upsert(changelog, cl["_id"], cl) ELSE changelog
          /\ pc' = [pc EXCEPT ![c] = to]
          /\ IF to = "idle"
               THEN /\ ret' = [ret EXCEPT ![c] = Return(frame[c].call, StoreErr(ok))]
                    /\ frame' = [frame EXCEPT ![c] = NoFrame]
               ELSE UNCHANGED <<ret, frame>>
  /\ now' = now + 1
  /\ nextOid' = nextOid + 1
  /\ UNCHANGED <<store, do, calls, filter>>

saveLog(c) == saveLogFind(c) \/ saveLogUpsert(c)

\* EraseWithLog, last step: m.Erase()
EraseWithLogErase(c) ==
  /\ pc[c] = "Erase"
  /\ \E ok \in Outcomes :
       /\ Erase(c, ok) /\ Called(ok)
       /\ ret' = [ret EXCEPT ![c] =
                    Return("EraseWithLog", RemoveIdErr(store, do[c].model.Id, ok))]
  /\ pc' = [pc EXCEPT ![c] = "idle"]
  /\ frame' = [frame EXCEPT ![c] = NoFrame]
  /\ UNCHANGED <<changelog, do, now, nextOid, calls, filter>>

\* DeleteWithLog, last step: m.Delete()
DeleteWithLogDelete(c) ==
  /\ pc[c] = "Delete"
  /\ now < MaxTime
  /\ \E ok \in Outcomes :
       /\ Delete(c, ok) /\ Called(ok)
       /\ ret' = [ret EXCEPT ![c] = Return("DeleteWithLog", StoreErr(ok))]
  /\ pc' = [pc EXCEPT ![c] = "idle"]
  /\ frame' = [frame EXCEPT ![c] = NoFrame]
  /\ UNCHANGED <<changelog, nextOid, calls, filter>>

\* ------------------------------------------------------------------ reads
\* findQ adds rmQ to m.Query in place and returns the query over it
findQ(q) ==
  IF q.set THEN [q EXCEPT !.and = @ + 1]
  ELSE [set |-> TRUE, id |-> NoKey, name |-> "", and |-> 1]

\* findByIdQ replaces m.Query by {"_id": id} and goes through findQ
findByIdQ(c) ==
  findQ([set |-> TRUE, id |-> do[c].model.Id, name |-> "", and |-> 0])

CanFindQ(c) == do[c].Query.and < MaxAnd

\* Count drops the error of query.Count()
Count(c) ==
  /\ Enter(c) /\ CanFindQ(c)
  /\ \E ok \in Outcomes :
       LET q == findQ(do[c].Query)
       IN /\ Called(ok)
          /\ do' = [do EXCEPT ![c].Query = q]
          /\ ret' = [ret EXCEPT ![c] =
                [op |-> "Count", err |-> "nil", storeErr |-> StoreErr(ok),
                 count |-> IF ok THEN Cardinality(Selected(CollectionOf(c), q))
                           ELSE 0,
                 out |-> {}, vals |-> {}]]
  /\ UNCHANGED <<store, changelog, pc, frame, now, nextOid, filter>>

FindAll(c) ==
  /\ Enter(c) /\ CanFindQ(c)
  /\ \E ok \in Outcomes :
       LET q == findQ(do[c].Query)
       IN /\ Called(ok)
          /\ do' = [do EXCEPT ![c].Query = q]
          /\ ret' = [ret EXCEPT ![c] =
                [Return("FindAll", StoreErr(ok)) EXCEPT
                   !.out = IF ok THEN Selected(CollectionOf(c), q) ELSE {}]]
  /\ UNCHANGED <<store, changelog, pc, frame, now, nextOid, filter>>

\* query.One(m.model): ErrNotFound when nothing is selected, and then the
\* struct behind m.model is left as it was
OneErr(sel, ok) ==
  IF ~ok THEN "StoreError" ELSE IF sel = {} THEN "NotFound" ELSE "nil"

Get(c) ==
  /\ Enter(c) /\ HasId(c)
  /\ \E ok \in Outcomes :
       LET q == findByIdQ(c)
           sel == Selected(store, q)
           err == OneErr(sel, ok)
       IN /\ Called(ok)
          /\ do' = [do EXCEPT ![c].Query = q,
                              ![c].model = IF err = "nil"
                                             THEN Unmarshal(store[CHOOSE i \in sel : TRUE])
                                             ELSE @]
          /\ ret' = [ret EXCEPT ![c] = Return("Get", err)]
  /\ UNCHANGED <<store, changelog, pc, frame, now, nextOid, filter>>

\* the default sort of findQ: "-UpdatedAt", "-CreatedAt"
SortsBefore(a, b) ==
  \/ a["UpdatedAt"] > b["UpdatedAt"]
  \/ a["UpdatedAt"] = b["UpdatedAt"] /\ a["CreatedAt"] > b["CreatedAt"]

\* the documents query.One can deliver: those no other selected one precedes
Firsts(coll, sel) ==
  {i \in sel : \A j \in sel : ~SortsBefore(coll[j], coll[i])}

GetByQ(c) ==
  /\ Enter(c) /\ IsPtr(c) /\ CanFindQ(c)
  /\ \E ok \in Outcomes :
       LET q == findQ(do[c].Query)
           sel == Selected(store, q)
           err == OneErr(sel, ok)
       IN /\ Called(ok)
          /\ ret' = [ret EXCEPT ![c] = Return("GetByQ", err)]
          /\ IF err = "nil"
               THEN \E i \in Firsts(store, sel) :
                      do' = [do EXCEPT ![c].Query = q, ![c].model = Unmarshal(store[i])]
               ELSE do' = [do EXCEPT ![c].Query = q]
  /\ UNCHANGED <<store, changelog, pc, frame, now, nextOid, filter>>

\* the column lists a caller hands to FindWithSelect and GetWithSelect, and
\* the key it hands to Distinct
Cols == {{"name"}}
DistinctKey == "name"

\* the document that the store returns under the projection cols: the
\* columns named, and "_id"; decoding finds the zero value for the others
Project(doc, cols) ==
  [k \in DOMAIN doc |->
     IF k \in cols \cup {"_id"} THEN doc[k]
     ELSE IF k \in {"CreatedAt", "UpdatedAt", "RemovedAt"} THEN ZeroTime
     ELSE IF k = flagKey THEN FALSE ELSE ""]

\* FindWithSelect: FindAll under a projection; the same documents are found
FindWithSelect(c, cols) ==
  /\ Enter(c) /\ CanFindQ(c)
  /\ \E ok \in Outcomes :
       LET q == findQ(do[c].Query)
       IN /\ Called(ok)
          /\ do' = [do EXCEPT ![c].Query = q]
          /\ ret' = [ret EXCEPT ![c] =
                [Return("FindWithSelect", StoreErr(ok)) EXCEPT
                   !.out = IF ok THEN Selected(CollectionOf(c), q) ELSE {}]]
  /\ UNCHANGED <<store, changelog, pc, frame, now, nextOid, filter>>

\* Distinct: the values that the selected documents hold under key
Distinct(c, key) ==
  /\ Enter(c) /\ CanFindQ(c)
  /\ \E ok \in Outcomes :
       LET q == findQ(do[c].Query)
           coll == CollectionOf(c)
       IN /\ Called(ok)
          /\ do' = [do EXCEPT ![c].Query = q]
          /\ ret' = [ret EXCEPT ![c] =
                [Return("Distinct", StoreErr(ok)) EXCEPT
                   !.vals = IF ok
                              THEN {coll[i][key] : i \in
                                      {j \in Selected(coll, q) : key \in DOMAIN coll[j]}}
                              ELSE {}]]
  /\ UNCHANGED <<store, changelog, pc, frame, now, nextOid, filter>>

\* GetWithSelect: Get under a projection
GetWithSelect(c, cols) ==
  /\ Enter(c) /\ HasId(c)
  /\ \E ok \in Outcomes :
       LET q == findByIdQ(c)
           sel == Selected(store, q)
           err == OneErr(sel, ok)
       IN /\ Called(ok)
          /\ do' = [do EXCEPT ![c].Query = q,
                              ![c].model =
                                 IF err = "nil"
                                   THEN Unmarshal(Project(store[CHOOSE i \in sel : TRUE], cols))
                                   ELSE @]
          /\ ret' = [ret EXCEPT ![c] = Return("GetWithSelect", err)]
  /\ UNCHANGED <<store, changelog, pc, frame, now, nextOid, filter>>

\* EraseAll: m.collection.RemoveAll(m.Query), with m.Query as it stands
EraseAll(c) ==
  /\ Enter(c)
  /\ \E ok \in Outcomes :
       LET coll == CollectionOf(c)
           left == IF ok THEN Remove(coll, Selected(coll, do[c].Query)) ELSE coll
       IN /\ Called(ok)
          /\ IF do[c].collection = "ChangeLog"
               THEN changelog' = left /\ UNCHANGED store
               ELSE store' = left /\ UNCHANGED changelog
          /\ ret' = [ret EXCEPT ![c] = Return("EraseAll", StoreErr(ok))]
  /\ UNCHANGED <<do, pc, frame, now, nextOid, filter>>

\* ------------------------------------------------------------------- Next
Step(c) ==
  \/ \E m \in CallerModels(c) : NewDo(c, m, ActorOf(c)[1], ActorOf(c)[2])
  \/ \E q \in CallerQueries : SetQuery(c, q)
  \/ CreateCall(c)
  \/ SaveCall(c)
  \/ EraseCall(c)
  \/ DeleteCall(c)
  \/ SaveWithLog(c)
  \/ EraseWithLog(c)
  \/ DeleteWithLog(c)
  \/ saveLog(c)
  \/ EraseWithLogErase(c)
  \/ DeleteWithLogDelete(c)
  \/ Count(c)
  \/ FindAll(c)
  \/ Get(c)
  \/ GetByQ(c)
  \/ \E cols \in Cols : FindWithSelect(c, cols)
  \/ Distinct(c, DistinctKey)
  \/ \E cols \in Cols : GetWithSelect(c, cols)
  \/ EraseAll(c)

Next == \E c \in Ctx : Step(c)

Spec == Init /\ [][Next]_vars

\* the same program with one context running at a time: a context takes a
\* step only while every other context is outside its methods
Alone(c) == \A d \in Ctx \ {c} : pc[d] \in {"new", "idle"}

NextSeq == \E c \in Ctx : Alone(c) /\ Step(c)

SpecSeq == Init /\ [][NextSeq]_vars

\* ------------------------------------------------------ reading the steps
\* context c took a step of one of its methods
Stepped(c) == pc'[c] # pc[c] \/ calls'[c] # calls[c]
\* the step is the call (and first step) of a method on c
Entered(c) == calls'[c] # calls[c]
\* the step is the return of method op on c
Returned(c, op) == Stepped(c) /\ pc'[c] = "idle" /\ ret'[c].op = op
\* the store call of the step worked
Worked == fails' = fails
\* c is at the given point of the given *WithLog method and takes its step
At(c, call, at) == frame[c].call = call /\ pc[c] = at /\ pc'[c] # at
\* the log documents the step added
LogAdded == DOMAIN changelog' \ DOMAIN changelog
\* the step left every log document there was as it was
LogKept ==
  \A l \in DOMAIN changelog : l \in DOMAIN changelog' /\ changelog'[l] = changelog[l]
IdOf(c) == do[c].model.Id
Removed(coll) == {i \in DOMAIN coll : IsTrue(coll[i], flagKey)}
NotRemoved(coll) == DOMAIN coll \ Removed(coll)

C2_DeleteHidesButKeeps ==
  [][/\ \A c \in Ctx :
          /\ (Returned(c, "Delete") \/ Returned(c, "DeleteWithLog"))
               /\ ret'[c].err = "nil" =>
                 IdOf(c) \in Removed(store')
          /\ Entered(c) /\ Worked /\ do[c].Query = NilQuery
               /\ do[c].collection = "Record" =>
                 /\ ret'[c].op = "Count" =>
                      ret'[c].count = Cardinality(NotRemoved(store))
                 /\ ret'[c].op = "FindAll" => ret'[c].out = NotRemoved(store)
                 /\ ret'[c].op = "Get" =>
                      (ret'[c].err = "nil" <=> IdOf(c) \in NotRemoved(store))
     /\ \A i \in DOMAIN store :
          i \notin DOMAIN store' =>
            \E d \in Ctx :
              \/ Returned(d, "Erase") \/ Returned(d, "EraseAll")
              \/ Returned(d, "EraseWithLog")
    ]_vars

\* two records are stored, one was soft-deleted by a Delete that returned
\* nil, and a Count on a context without filter has returned 1
C2_Witness ==
  \E c, d \in Ctx :
    /\ ret[c].op = "Count" /\ ret[c].storeErr = "nil" /\ ret[c].count = 1
    /\ do[c].collection = "Record" /\ do[c].Query = findQ(NilQuery)
    /\ ret[d].op = "Delete" /\ ret[d].err = "nil"
    /\ IdOf(d) \in Removed(store)
    /\ Cardinality(DOMAIN store) = 2

\* ---------------------------------------------------------------- C3
\* C3: with one context running at a time, EraseWithLog changes neither
\* collection before its log write; the log write adds exactly one entry,
\* with Operation ERASE and ModelValue the document stored at that moment,
\* while the document is still stored; the Erase step writes no log and,
\* when it returns nil, removes the document; and a Get whose store call
\* works on an identity with no stored document returns NotFound.
C3_EraseLogsThenRemoves ==
  [][\A c \in Ctx :
       /\ Entered(c) /\ pc'[c] = "saveLog" /\ frame'[c].call = "EraseWithLog" =>
            store' = store /\ changelog' = changelog
       /\ At(c, "EraseWithLog", "saveLog") =>
            store' = store /\ changelog' = changelog
       /\ At(c, "EraseWithLog", "saveLogUpsert") /\ Worked =>
            /\ store' = store
            /\ IdOf(c) \in DOMAIN store
            /\ pc'[c] = "Erase"
            /\ LogKept
            /\ \E l \in LogAdded :
                 /\ LogAdded = {l}
                 /\ changelog'[l].Operation = ERASE
                 /\ changelog'[l].ModelObjId = IdOf(c)
                 /\ changelog'[l].ModelValue = store[IdOf(c)]
       /\ At(c, "EraseWithLog", "Erase") =>
            /\ changelog' = changelog
            /\ ret'[c].err = "nil" =>
                 IdOf(c) \in DOMAIN store /\ IdOf(c) \notin DOMAIN store'
       /\ Returned(c, "Get") /\ Worked /\ IdOf(c) \notin DOMAIN store =>
            ret'[c].err = "NotFound"
     ]_vars

\* an EraseWithLog returned nil: its ERASE entry is in the log and the
\* document is gone
C3_Witness ==
  \E c \in Ctx :
    /\ pc[c] = "idle" /\ ret[c].op = "EraseWithLog" /\ ret[c].err = "nil"
    /\ IdOf(c) \notin DOMAIN store
    /\ \E l \in DOMAIN changelog :
         /\ changelog[l].Operation = ERASE
         /\ changelog[l].ModelObjId = IdOf(c)
         /\ changelog[l].ModelValue["CreatedAt"] # ZeroTime

\* ---------------------------------------------------------------- C4
\* C4: with one context running at a time, SaveWithLog writes no log in its
\* Save step nor in the re-read; its log write adds exactly one entry, with
\* Operation UPDATE and ModelValue the document now stored, which carries
\* the UpdatedAt and UpdatedBy that this call's Save stamped; and the call
\* then returns nil.
C4_SaveLogHoldsSavedState ==
  [][\A c \in Ctx :
       /\ Entered(c) /\ (frame'[c].call = "SaveWithLog" \/ Returned(c, "SaveWithLog")) =>
            changelog' = changelog
       /\ At(c, "SaveWithLog", "saveLog") =>
            store' = store /\ changelog' = changelog
       /\ At(c, "SaveWithLog", "saveLogUpsert") /\ Worked =>
            /\ store' = store
            /\ Returned(c, "SaveWithLog") /\ ret'[c].err = "nil"
            /\ LogKept
            /\ \E l \in LogAdded :
                 /\ LogAdded = {l}
                 /\ changelog'[l].Operation = UPDATE
                 /\ changelog'[l].ModelObjId = IdOf(c)
                 /\ changelog'[l].ModelValue = store[IdOf(c)]
                 /\ changelog'[l].ModelValue = Marshal(do[c].model)
                 /\ changelog'[l].ModelValue["UpdatedAt"] = now
                 /\ changelog'[l].ModelValue["UpdatedBy"] = do[c].Operator
     ]_vars

\* a SaveWithLog on a record created earlier returned nil, and its UPDATE
\* entry shows the stamp of the save, later than the creation
C4_Witness ==
  \E c \in Ctx :
    /\ pc[c] = "idle" /\ ret[c].op = "SaveWithLog" /\ ret[c].err = "nil"
    /\ \E l \in DOMAIN changelog :
         /\ changelog[l].Operation = UPDATE
         /\ changelog[l].ModelObjId = IdOf(c)
         /\ changelog[l].ModelValue["CreatedAt"] # ZeroTime
         /\ changelog[l].ModelValue["UpdatedAt"] > changelog[l].ModelValue["CreatedAt"]

\* ---------------------------------------------------------------- C5
\* C5 as the specification states it: an Erase whose store call works on an
\* identity with no stored document returns nil and leaves the store alone.
C5_EraseOfMissingIsSilent ==
  [][\A c \in Ctx :
       Returned(c, "Erase") /\ Worked /\ IdOf(c) \notin DOMAIN store =>
         ret'[c].err = "nil" /\ store' = store
     ]_vars

\* C5 (amended): an Erase whose store call works on an identity with no
\* stored document leaves the store unchanged and returns the driver's
\* NotFound error; it returns nil exactly when it removed a document.
C5_EraseOfMissingIsNotFound ==
  [][\A c \in Ctx :
       Returned(c, "Erase") /\ Worked =>
         IF IdOf(c) \in DOMAIN store
           THEN ret'[c].err = "nil" /\ IdOf(c) \notin DOMAIN store'
           ELSE ret'[c].err = "NotFound" /\ store' = store
     ]_vars

\* an Erase found nothing to remove and said so, with documents in the store
C5_Witness ==
  \E c \in Ctx :
    /\ ret[c].op = "Erase" /\ ret[c].err = "NotFound"
    /\ IdOf(c) \notin DOMAIN store /\ DOMAIN store # {}

\* ---------------------------------------------------------------- C6
\* C6: an EraseAll whose store call works removes exactly the documents of
\* its collection that the filter the caller gave to the context selects,
\* whatever was called on the context before.
C6_EraseAllUsesCallerFilter ==
  [][\A c \in Ctx :
       Returned(c, "EraseAll") /\ Worked =>
         IF do[c].collection = "ChangeLog"
           THEN DOMAIN changelog' = DOMAIN changelog \ Selected(changelog, filter[c])
           ELSE DOMAIN store' = DOMAIN store \ Selected(store, filter[c])
     ]_vars

\* ---------------------------------------------------------------- C7
\* C7: after the Save of SaveWithLog succeeded, neither step of its saveLog
\* writes to the record collection; when the re-read finds no document or
\* the store fails in either step, SaveWithLog returns that error
\* (NotFound, the store's error) and writes no log entry.
C7_LogFailureKeepsSave ==
  [][\A c \in Ctx :
       /\ At(c, "SaveWithLog", "saveLog") =>
            /\ store' = store
            /\ ~Worked =>
                 Returned(c, "SaveWithLog") /\ ret'[c].err = "StoreError"
                   /\ changelog' = changelog
            /\ Worked /\ IdOf(c) \notin DOMAIN store =>
                 Returned(c, "SaveWithLog") /\ ret'[c].err = "NotFound"
                   /\ changelog' = changelog
       /\ At(c, "SaveWithLog", "saveLogUpsert") =>
            /\ store' = store
            /\ ~Worked =>
                 Returned(c, "SaveWithLog") /\ ret'[c].err = "StoreError"
                   /\ changelog' = changelog
     ]_vars

\* a SaveWithLog returned an error although the store holds the document
\* exactly as this call saved it, and no log entry describes it
C7_Witness ==
  \E c \in Ctx :
    /\ pc[c] = "idle" /\ ret[c].op = "SaveWithLog" /\ ret[c].err # "nil"
    /\ IdOf(c) \in DOMAIN store
    /\ store[IdOf(c)] = Marshal(do[c].model)
    /\ \A l \in DOMAIN changelog : changelog[l].ModelObjId # IdOf(c)

\* ---------------------------------------------------------------- C8
\* the error of the step that c takes inside saveLog or a closing mutation
StepErr(c) ==
  IF ~Worked THEN "StoreError"
  ELSE IF pc[c] \in {"saveLog", "Erase"} /\ IdOf(c) \notin DOMAIN store
         THEN "NotFound" ELSE "nil"

\* C8: a *WithLog method returns at its first failing step with that step's
\* error and the failing step changes neither collection: a failed Save in
\* SaveWithLog returns at once with no log entry; a failed re-read or log
\* write ends the method before its Erase or Delete; and a log entry is
\* added only by a log write that worked.
C8_StopsAtFirstFailure ==
  [][/\ \A c \in Ctx :
          /\ Entered(c) /\ Returned(c, "SaveWithLog") =>
               /\ ~Worked /\ ret'[c].err = "StoreError"
               /\ store' = store /\ changelog' = changelog
          /\ Stepped(c) /\ pc[c] \in {"saveLog", "saveLogUpsert"}
               /\ StepErr(c) # "nil" =>
               /\ Returned(c, frame[c].call) /\ ret'[c].err = StepErr(c)
               /\ store' = store /\ changelog' = changelog
          /\ Stepped(c) /\ pc[c] \in {"Erase", "Delete"} =>
               /\ Returned(c, frame[c].call) /\ ret'[c].err = StepErr(c)
               /\ StepErr(c) # "nil" => store' = store
     /\ LogAdded # {} =>
          \E c \in Ctx : Stepped(c) /\ pc[c] = "saveLogUpsert" /\ Worked
    ]_vars

\* an EraseWithLog on an identity with no stored document returned NotFound:
\* the log is empty and the documents of the others are all there
C8_Witness ==
  \E c \in Ctx :
    /\ pc[c] = "idle" /\ ret[c].op = "EraseWithLog" /\ ret[c].err = "NotFound"
    /\ changelog = <<>>
    /\ DOMAIN store # {}

\* ---------------------------------------------------------------- C9
\* C9 as the specification states it: no step modifies or removes a log
\* entry.
C9_LogIsAppendOnly == [][LogKept]_vars

\* C9 (amended): no method of a context over a record collection modifies
\* or removes a log entry; a log entry changes only when EraseAll is called
\* on a context constructed over the ChangeLog collection itself.
C9_OnlyALogContextErasesLog ==
  [][~LogKept =>
       \E c \in Ctx : do[c].collection = "ChangeLog" /\ Returned(c, "EraseAll")
    ]_vars

\* a log entry is there after an EraseAll on a record context returned nil
\* and emptied the record collection
C9_Witness ==
  \E c \in Ctx :
    /\ do[c].collection = "Record"
    /\ ret[c].op = "EraseAll" /\ ret[c].err = "nil"
    /\ store = <<>>
    /\ changelog # <<>>

\* ---------------------------------------------------------------- C10
\* C10: the re-read of SaveWithLog takes the document stored at that moment,
\* whoever wrote it, and the log write puts that document in ModelValue
\* with this call's operator and reason: when the document re-read is not
\* the one this call saved, the UPDATE entry holds the other writer's state.
C10_LogHoldsOtherWritersState ==
  [][\A c \in Ctx :
       /\ At(c, "SaveWithLog", "saveLog") /\ pc'[c] = "saveLogUpsert" =>
            frame'[c].record = <<store[IdOf(c)]>>
       /\ At(c, "SaveWithLog", "saveLogUpsert") /\ Worked
            /\ frame[c].record[1] # Marshal(do[c].model) =>
            \E l \in LogAdded :
              /\ LogAdded = {l}
              /\ changelog'[l].Operation = UPDATE
              /\ changelog'[l].ModelValue = frame[c].record[1]
              /\ changelog'[l].ModelValue # Marshal(do[c].model)
              /\ changelog'[l].CreatedBy = do[c].Operator
              /\ changelog'[l].ChangeReason = do[c].Reason
     ]_vars

\* alice's SaveWithLog returned nil and its UPDATE entry, logged by alice,
\* shows the document as bob saved it in between
C10_Witness ==
  \E c \in Ctx :
    /\ pc[c] = "idle" /\ ret[c].op = "SaveWithLog" /\ ret[c].err = "nil"
    /\ \E l \in DOMAIN changelog :
         /\ changelog[l].Operation = UPDATE
         /\ changelog[l].ModelObjId = IdOf(c)
         /\ changelog[l].CreatedBy = do[c].Operator
         /\ changelog[l].ModelValue["UpdatedBy"] # do[c].Operator
         /\ changelog[l].ModelValue["UpdatedAt"] > do[c].model.UpdatedAt

\* ---------------------------------------------------------------- C11
\* the step is the m.Save() of a Save or of a SaveWithLog on c
SaveStep(c) ==
  Entered(c) /\ (ret'[c].op \in {"Save", "SaveWithLog"} \/ frame'[c].call = "SaveWithLog")

\* C11: a Save whose upsert works leaves, under its identity, exactly the
\* bson encoding of the whole record of the calling context, whatever
\* document was stored there before, and touches no other document; so when
\* the last calls of two contexts are Saves of one identity that returned
\* nil, and no third context has called anything, the stored document is
\* the whole record of one of the two.
C11_SaveWritesWholeRecord ==
  [][/\ \A c \in Ctx :
          SaveStep(c) /\ Worked =>
            /\ IdOf(c) \in DOMAIN store'
            /\ store'[IdOf(c)] = Marshal(do'[c].model)
            /\ \A i \in DOMAIN store \ {IdOf(c)} :
                 i \in DOMAIN store' /\ store'[i] = store[i]
     /\ \A c, d \in Ctx :
          /\ c # d /\ pc'[c] = "idle" /\ pc'[d] = "idle"
          /\ ret'[c].op = "Save" /\ ret'[c].err = "nil"
          /\ ret'[d].op = "Save" /\ ret'[d].err = "nil"
          /\ do'[c].model.Id = do'[d].model.Id
          /\ \A e \in Ctx \ {c, d} : calls'[e] = 0
          => /\ do'[c].model.Id \in DOMAIN store'
             /\ store'[do'[c].model.Id] \in
                  {Marshal(do'[c].model), Marshal(do'[d].model)}
    ]_vars

\* two contexts saved different payloads under one identity, both Saves
\* returned nil, and the stored document is the record of the second writer
C11_Witness ==
  \E c, d \in Ctx :
    /\ c # d /\ pc[c] = "idle" /\ pc[d] = "idle"
    /\ ret[c].op = "Save" /\ ret[c].err = "nil"
    /\ ret[d].op = "Save" /\ ret[d].err = "nil"
    /\ IdOf(c) = IdOf(d)
    /\ do[c].model.Name # do[d].model.Name
    /\ do[c].model.UpdatedAt < do[d].model.UpdatedAt
    /\ store[IdOf(c)] = Marshal(do[d].model)
    /\ store[IdOf(c)] # Marshal(do[c].model)

\* ---------------------------------------------------------------- C12
\* what a Create that works stores, and what a Get that works on a context
\* without filter then returns: the document under the identity that Create
\* assigned, with CreatedAt set and CreatedBy the creating operator, and
\* that document decoded into the record of the reading context
CreateThenGet ==
  \A c \in Ctx :
    /\ Returned(c, "Create") /\ Worked =>
         LET i == do'[c].model.Id
         IN /\ i # NoId /\ i \notin DOMAIN store /\ i \in DOMAIN store'
            /\ store'[i]["_id"] = i
            /\ store'[i]["CreatedAt"] = now' /\ now' # ZeroTime
            /\ store'[i]["CreatedBy"] = do[c].Operator
            /\ IsTrue(store'[i], flagKey) = do[c].model.IsRemoved
    /\ Returned(c, "Get") /\ Worked /\ do[c].Query = NilQuery
         /\ IdOf(c) \in NotRemoved(store) =>
         /\ ret'[c].err = "nil"
         /\ do'[c].model.Id = IdOf(c)
         /\ do'[c].model.CreatedAt = store[IdOf(c)]["CreatedAt"]
         /\ do'[c].model.CreatedBy = store[IdOf(c)]["CreatedBy"]

\* C12 as the specification states it: for every record, the document that
\* a Create stores is not soft-deleted (and is what a Get on a fresh context
\* then returns, with the identity, CreatedAt and CreatedBy of the Create).
C12_CreateThenGetAlways ==
  [][/\ CreateThenGet
     /\ \A c \in Ctx :
          Returned(c, "Create") /\ Worked =>
            do'[c].model.Id \in NotRemoved(store')
    ]_vars

\* C12 (amended): a Create that works stores, under the fresh identity it
\* assigned, a document with CreatedAt set and CreatedBy the operator of the
\* creating context, and a Get that works on a fresh context returns that
\* identity, CreatedAt and CreatedBy as long as the document is not
\* soft-deleted; the document is not soft-deleted exactly when the record
\* handed to Create did not carry IsRemoved = true, which Create leaves as
\* it finds it.
C12_CreateThenGetUnlessRemoved ==
  [][/\ CreateThenGet
     /\ \A c \in Ctx :
          Returned(c, "Create") /\ Worked /\ ~do[c].model.IsRemoved =>
            do'[c].model.Id \in NotRemoved(store')
    ]_vars

\* alice created a record and bob's Get on a fresh context returned it with
\* the identity alice's Create assigned, its CreatedAt and CreatedBy alice
C12_Witness ==
  \E c, d \in Ctx :
    /\ c # d
    /\ ret[c].op = "Create" /\ ret[c].err = "nil"
    /\ ret[d].op = "Get" /\ ret[d].err = "nil"
    /\ IdOf(d) = IdOf(c)
    /\ do[d].model.CreatedAt = do[c].model.CreatedAt
    /\ do[d].model.CreatedAt # ZeroTime
    /\ do[d].model.CreatedBy = do[c].Operator
    /\ ~do[d].model.IsRemoved

\* ---------------------------------------------------------------- C13
\* context c, whose record has an Id, takes a step of a method
StepOfAssigned(c) ==
  Stepped(c) /\ pc[c] # "new" /\ IsPtr(c) /\ IdOf(c) # NoId
\* every stored document keeps the identity it is stored under
StoredIdsKept ==
  /\ \A i \in DOMAIN store' : store'[i]["_id"] = i
  /\ \A i \in DOMAIN store \cap DOMAIN store' : store'[i]["_id"] = store[i]["_id"]

\* C13 as the specification states it: no step of Create, Save, Delete,
\* Erase, Get or a *WithLog method changes the Id of a record that has one,
\* in the caller's record or in the store.
C13_IdIsImmutable ==
  [][/\ \A c \in Ctx :
          StepOfAssigned(c) /\ ~Returned(c, "GetByQ") =>
            do'[c].model.Id = IdOf(c)
     /\ StoredIdsKept
    ]_vars

\* C13 (amended): no step of Save, Delete, Erase, Get, GetWithSelect or a
\* *WithLog method changes the Id of the caller's record, and no step
\* changes the identity of a stored document; Create always assigns a fresh
\* Id, also to a record that has one: the record then carries the new Id
\* and the document stored under the old one stays as it was.
C13_OnlyCreateReassignsId ==
  [][/\ \A c \in Ctx :
          /\ StepOfAssigned(c) /\ ~Returned(c, "GetByQ")
               /\ ~Returned(c, "Create") =>
                 do'[c].model.Id = IdOf(c)
          /\ StepOfAssigned(c) /\ Returned(c, "Create") =>
               /\ do'[c].model.Id = NewObjectId
               /\ do'[c].model.Id # IdOf(c)
               /\ IdOf(c) \in DOMAIN store =>
                    IdOf(c) \in DOMAIN store' /\ store'[IdOf(c)] = store[IdOf(c)]
     /\ StoredIdsKept
    ]_vars

\* a record that was saved under one Id went through Create: it has a new
\* Id, and the store holds the document of the Save and that of the Create
C13_Witness ==
  \E c \in Ctx :
    /\ ret[c].op = "Create" /\ ret[c].err = "nil"
    /\ do[c].model.UpdatedAt # ZeroTime
    /\ do[c].model.CreatedAt > do[c].model.UpdatedAt
    /\ IdOf(c) \in DOMAIN store
    /\ \E i \in DOMAIN store :
         /\ i # IdOf(c)
         /\ store[i]["UpdatedAt"] = do[c].model.UpdatedAt
         /\ store[i]["UpdatedBy"] = do[c].Operator
         /\ store[i]["CreatedAt"] = ZeroTime

\* ---------------------------------------------------------------- C14
\* the operators that contexts act for
Operators == {ActorOf(c)[1] : c \in Ctx}

\* C14: the m.Delete() of a Delete or DeleteWithLog that works writes the
\* flag, RemovedAt = now and RemovedBy = its operator in one step; and after
\* every step, every stored document whose flag is true has RemovedAt set
\* and RemovedBy one of the operators, for records that callers hand over
\* with RemovedAt, RemovedBy and IsRemoved at their zero values.
C14_RemovedHasStampAndActor ==
  [][/\ \A c \in Ctx :
          (Returned(c, "Delete") \/ At(c, "DeleteWithLog", "Delete")) /\ Worked =>
            /\ IdOf(c) \in Removed(store')
            /\ store'[IdOf(c)]["RemovedAt"] = now' /\ now' # ZeroTime
            /\ store'[IdOf(c)]["RemovedBy"] = do[c].Operator
     /\ \A i \in Removed(store') :
          /\ store'[i]["RemovedAt"] # ZeroTime
          /\ store'[i]["RemovedBy"] \in Operators
    ]_vars

\* a record was soft-deleted and then saved by the same context: the stored
\* document has the flag, the time of the Delete and its operator
C14_Witness ==
  \E c \in Ctx :
    /\ ret[c].op = "Save" /\ ret[c].err = "nil"
    /\ IdOf(c) \in Removed(store)
    /\ store[IdOf(c)]["RemovedAt"] # ZeroTime
    /\ store[IdOf(c)]["UpdatedAt"] > store[IdOf(c)]["RemovedAt"]
    /\ store[IdOf(c)]["RemovedBy"] = do[c].Operator

\* ---------------------------------------------------------------- C15
\* C15: whenever the store call of a step fails, the method that made the
\* call returns in that step and returns the error.
C15_NoStoreFailureIsSwallowed ==
  [][\A c \in Ctx :
       Stepped(c) /\ ~Worked =>
         pc'[c] = "idle" /\ ret'[c].err = "StoreError"
    ]_vars

FilterFinds(c) ==
  IdOf(c) \in DOMAIN store /\ IdOf(c) \in Selected(store, findQ(filter[c]))

\* C17: a Get that works returns nil and the stored record exactly when a
\* document of its identity is stored, is not soft-deleted and satisfies
\* the filter the caller set on the context; otherwise it returns NotFound
\* and leaves the caller's record as it was.
C17_GetAppliesCallerFilter ==
  [][\A c \in Ctx :
       Returned(c, "Get") /\ Worked =>
         IF FilterFinds(c)
           THEN ret'[c].err = "nil" /\ do'[c].model = Unmarshal(store[IdOf(c)])
           ELSE ret'[c].err = "NotFound" /\ do'[c].model = do[c].model
    ]_vars

\* ---------------------------------------------------------------- C18
\* C18: a FindAll or Count that works returns the documents (their number)
\* that the caller's filter composed with the soft-delete exclusion selects
\* in the collection, whatever reads were issued on the context before.
C18_ReadsKeepSelection ==
  [][\A c \in Ctx :
       Worked =>
         /\ Returned(c, "FindAll") =>
              ret'[c].out = Selected(CollectionOf(c), findQ(filter[c]))
         /\ Returned(c, "Count") =>
              ret'[c].count =
                Cardinality(Selected(CollectionOf(c), findQ(filter[c])))
    ]_vars

\* ---------------------------------------------------------------- C19
\* C19 as stated: a stored document whose soft-delete flag is set keeps the
\* flag for as long as it is stored, whatever the contexts do.
C19_SoftDeleteIsSticky ==
  [][\A i \in Removed(store) :
       i \in DOMAIN store' => i \in Removed(store')
    ]_vars

\* C19 (amended): the flag of a stored document is cleared only by the
\* m.Save() of a Save or SaveWithLog on that identity by a context whose own
\* copy of the record has IsRemoved = false, and every such Save that works
\* does clear it; no Delete, Create, read or log step clears it.
C19_OnlyAStaleSaveUndeletes ==
  [][/\ \A i \in Removed(store) :
          i \in DOMAIN store' /\ i \notin Removed(store') =>
            \E c \in Ctx :
              SaveStep(c) /\ Worked /\ IdOf(c) = i /\ ~do[c].model.IsRemoved
     /\ \A c \in Ctx :
          SaveStep(c) /\ Worked /\ ~do[c].model.IsRemoved =>
            IdOf(c) \in NotRemoved(store')
    ]_vars

\* alice's Delete succeeded, and bob's later Save of his own copy left the
\* stored document with the flag cleared
C19_Witness ==
  \E c, d \in Ctx :
    /\ c # d
    /\ ret[c].op = "Delete" /\ ret[c].err = "nil"
    /\ ret[d].op = "Save" /\ ret[d].err = "nil"
    /\ IdOf(c) = IdOf(d)
    /\ do[d].model.UpdatedAt > do[c].model.RemovedAt
    /\ IdOf(c) \in NotRemoved(store)
    /\ store[IdOf(c)]["RemovedAt"] = ZeroTime

\* ---------------------------------------------------------------- C20
\* C20 as stated: a *WithLog call that has written its log entry does not
\* return an error: the Erase of EraseWithLog and the Delete of
\* DeleteWithLog, which run after the log write, return nil.
C20_LoggedMeansApplied ==
  [][\A c \in Ctx :
       At(c, "EraseWithLog", "Erase") \/ At(c, "DeleteWithLog", "Delete") =>
         ret'[c].err = "nil"
    ]_vars

\* C20 (amended): a log entry is added only by a log write that worked; in
\* SaveWithLog that write is the last step and the call then returns nil,
\* so a SaveWithLog that returns an error has added no entry; in
\* EraseWithLog and DeleteWithLog the mutation comes after the log write,
\* and when it fails (the store fails, or Erase finds the document gone) the
\* call returns that error, the store is unchanged and the log entry that
\* the call has written stays in the log.
C20_LogStaysWhenMutationFails ==
  [][/\ LogAdded # {} =>
          \E c \in Ctx : Stepped(c) /\ pc[c] = "saveLogUpsert" /\ Worked
     /\ \A c \in Ctx :
          /\ At(c, "SaveWithLog", "saveLogUpsert") /\ Worked =>
               Returned(c, "SaveWithLog") /\ ret'[c].err = "nil"
          /\ (At(c, "EraseWithLog", "saveLogUpsert")
                 \/ At(c, "DeleteWithLog", "saveLogUpsert")) /\ Worked =>
               /\ pc'[c] \in {"Erase", "Delete"}
               /\ LogAdded # {}
               /\ store' = store
          /\ At(c, "EraseWithLog", "Erase") \/ At(c, "DeleteWithLog", "Delete") =>
               /\ Returned(c, frame[c].call)
               /\ ret'[c].err = StepErr(c)
               /\ changelog' = changelog
               /\ StepErr(c) # "nil" => store' = store
    ]_vars

\* two contexts ran EraseWithLog on one identity: both wrote an ERASE entry,
\* one removed the document and the other returned NotFound
C20_Witness ==
  \E c, d \in Ctx :
    /\ c # d /\ pc[c] = "idle" /\ pc[d] = "idle"
    /\ ret[c].op = "EraseWithLog" /\ ret[c].err = "nil"
    /\ ret[d].op = "EraseWithLog" /\ ret[d].err = "NotFound"
    /\ IdOf(c) = IdOf(d)
    /\ IdOf(c) \notin DOMAIN store
    /\ \E k, l \in DOMAIN changelog :
         /\ k # l
         /\ changelog[k].Operation = ERASE /\ changelog[l].Operation = ERASE
         /\ changelog[k].ModelObjId = IdOf(c) /\ changelog[l].ModelObjId = IdOf(c)
         /\ changelog[k].CreatedBy = do[c].Operator
         /\ changelog[l].CreatedBy = do[d].Operator
====
